---- MODULE Spec2Model ----
(***************************************************************************)
(* Model of src/src/bluesky.js: the pipeline that reads the newest entry   *)
(* of an RSS feed, looks for its link in the account's post history and    *)
(* publishes it when it is not found.                                      *)
(*                                                                         *)
(* A JavaScript string is a sequence of UTF-16 code units.  A code unit is *)
(* a token: "sp", "tab" and "nl" are the space, the tab and the newline,   *)
(* "e2" is U+00E9, "hs" and "ls" are the high and the low surrogate of one *)
(* astral character, any other token is an ASCII character.  length,       *)
(* indexOf, includes and endsWith work on code units, as in the language.  *)
(***************************************************************************)
EXTENDS Integers, Sequences, FiniteSets, TLC

\* ------------------------------------------------------------------ bounds

\* Longest text, in characters, handed to sendBlueskyPost directly.
MaxTextChars == 3

\* Most history requests one scan issues while the server keeps answering
\* with empty pages that carry a cursor.
MaxRequests == 2

\* Most items of a feed handed to getLatestRSSPost alone.
MaxFeedItems == 2

\* Most entries handed to writeRSS.
MaxEntries == 2

\* Most calls of mirrorDirectory in a row.
MaxMirrorCalls == 2

\* Most names in the paths handed to setupDist.
MaxDistPaths == 2

\* Most pieces of a url handed to fetchCSS.
MaxUrlPieces == 3

\* The count of a scan's requests is kept up to this many.
MaxFetchesCounted == 3

\* ----------------------------------------------------------------- strings

\* The value of a missing property or argument (undefined).
Undefined == <<"undefined">>

\* !x for a string or undefined.
FalsyUndefinedOnly(x) == x = Undefined

Falsy(x) == x = Undefined \/ x = <<>>

\* a || b
OrElse(a, b) == IF Falsy(a) THEN b ELSE a

\* Characters of the modelled alphabet, and the code units of each.
Chars == {"a", "sp", "tab", "nl", "e2", "smile", "u", "v"}

CodeUnits(c) == IF c = "smile" THEN <<"hs", "ls">> ELSE <<c>>

RECURSIVE Encode16(_)
Encode16(cs) ==
    IF cs = <<>> THEN <<>> ELSE CodeUnits(Head(cs)) \o Encode16(Tail(cs))

\* All character sequences of length at most n.
RECURSIVE CharSeqs(_)
CharSeqs(n) ==
    IF n = 0 THEN {<<>>}
    ELSE LET shorter == CharSeqs(n - 1)
         IN  shorter \cup {Append(s, c) : s \in {t \in shorter : Len(t) = n - 1}, c \in Chars}

\* UTF-8 length of the text a sequence of code units stands for, as
\* TextEncoder computes it: one byte for ASCII, two for U+00E9, four for a
\* surrogate pair, three (U+FFFD) for a lone surrogate.
RECURSIVE Utf8Len(_)
Utf8Len(s) ==
    IF s = <<>> THEN 0
    ELSE IF Head(s) = "hs" /\ Len(s) >= 2 /\ s[2] = "ls"
         THEN 4 + Utf8Len(Tail(Tail(s)))
    ELSE IF Head(s) \in {"hs", "ls"} THEN 3 + Utf8Len(Tail(s))
    ELSE IF Head(s) = "e2" THEN 2 + Utf8Len(Tail(s))
    ELSE 1 + Utf8Len(Tail(s))

\* s.startsWith(t, i), with i counted from 0.
OccursAt(s, t, i) ==
    /\ i + Len(t) <= Len(s)
    /\ \A k \in 1..Len(t) : s[i + k] = t[k]

\* s.indexOf(t): the index, from 0, of the first occurrence, or -1.
IndexOf(s, t) ==
    LET hits == {i \in 0..Len(s) : OccursAt(s, t, i)}
    IN  IF hits = {} THEN -1 ELSE CHOOSE i \in hits : \A j \in hits : i <= j

\* s.includes(t)
Includes(s, t) == IndexOf(s, t) # -1

\* s.endsWith(t)
EndsWith(s, t) == Len(t) <= Len(s) /\ OccursAt(s, t, Len(s) - Len(t))

\* --------------------------------------------------------- sendBlueskyPost

LinkType == "app.bsky.richtext.facet#link"

MentionType == "app.bsky.richtext.facet#mention"

LinkFacetAsMention(byteStart, byteEnd, url) ==
    [index |-> [byteStart |-> byteStart, byteEnd |-> byteEnd],
     features |-> <<[type |-> MentionType, uri |-> url]>>]

LinkFacet(byteStart, byteEnd, url) ==
    [index |-> [byteStart |-> byteStart, byteEnd |-> byteEnd],
     features |-> <<[type |-> LinkType, uri |-> url]>>]

SeparatorAlways(text) == <<"sp">>

\* const separator = text.endsWith(" ") ? "" : " ";
Separator(text) == IF EndsWith(text, <<"sp">>) THEN <<>> ELSE <<"sp">>

AppendedStartOld(text, newText, url) == Len(text) - Len(url)

\* byteStart = record.text.length - url.length;
AppendedStart(text, newText, url) == Len(newText) - Len(url)

BuildRecordWithoutUrl(text, url) == [record |-> TRUE, text |-> text, facets |-> <<>>]

\* The record sendBlueskyPost builds from its arguments (createdAt is left
\* out: nothing reads it).  A record with no facets property has facets <<>>.
BuildRecord(text, url) ==
    IF Falsy(url) THEN [record |-> TRUE, text |-> text, facets |-> <<>>]
    ELSE LET urlIndex == IndexOf(text, url)
         IN  IF urlIndex # -1
             THEN [record |-> TRUE, text |-> text,
                   facets |-> <<LinkFacet(urlIndex, urlIndex + Len(url), url)>>]
             ELSE LET newText == text \o Separator(text) \o url
                  IN  [record |-> TRUE, text |-> newText,
                       facets |-> <<LinkFacet(AppendedStart(text, newText, url),
                                              Len(newText), url)>>]

\* ------------------------------------------------------- hasLinkBeenPosted

\* const maxPostsToCheck = 100;
maxPostsToCheck == 100

\* limit: 100 in the getAuthorFeed request, which the server honours.
Limit == 100

\* A feed item whose post carries no record.
NoRecordItem == [record |-> FALSE, text |-> Undefined, facets |-> <<>>]

\* feature.$type === "app.bsky.richtext.facet#link" && feature.uri === link
FacetMatches(facet, link) ==
    \E k \in 1..Len(facet.features) :
        /\ facet.features[k].type = LinkType
        /\ facet.features[k].uri = link

\* post.text && post.text.includes(link)
TextMatches(post, link) == ~Falsy(post.text) /\ Includes(post.text, link)

ItemMatchesSkipsRecords(item, link) ==
    /\ ~item.record
    /\ \/ TextMatches(item, link)
       \/ \E f \in 1..Len(item.facets) : FacetMatches(item.facets[f], link)

\* The body of the loop over one feed item, after postsChecked++: whether it
\* returns true.
ItemMatches(item, link) ==
    /\ item.record
    /\ \/ TextMatches(item, link)
       \/ \E f \in 1..Len(item.facets) : FacetMatches(item.facets[f], link)

\* Index of the first item of the page at which the loop returns true, or 0.
FirstMatch(feed, link) ==
    LET hits == {i \in 1..Len(feed) : ItemMatches(feed[i], link)}
    IN  IF hits = {} THEN 0 ELSE CHOOSE i \in hits : \A j \in hits : i <= j

InspectedWholePage(feed, link) == Len(feed)

\* How many times postsChecked++ runs on a page: up to the item that
\* returns, or the whole page.
Inspected(feed, link) ==
    IF FirstMatch(feed, link) # 0 THEN FirstMatch(feed, link) ELSE Len(feed)

LoopGoesOnWhileMore(more, checked) == more

LoopGoesOnBelowCeiling(more, checked) == checked < 100

\* while (hasMore && postsChecked < maxPostsToCheck)
LoopGoesOn(more, checked) == more /\ checked < maxPostsToCheck

\* ------------------------------------------------------------------ server

Min(a, b) == IF a <= b THEN a ELSE b

\* Page sizes the history endpoint may choose, besides the whole remainder.
PageSizes == {0, 60, 99}

\* A cursor is <<k>>: k posts, the oldest ones, are still to be listed.  No
\* cursor is <<>>.  Posts are listed most recent first, so posts created
\* after the cursor was issued are not under it.
Remaining(h, cur) == IF cur = <<>> THEN Len(h) ELSE Min(cur[1], Len(h))

\* The cursors a response may carry after a page of n posts that leaves
\* left posts unlisted: one whenever older posts remain, and possibly one
\* when none does.  An empty page with a cursor is given to the first
\* MaxRequests - 1 requests of a scan only.
CursorsAfter(left, n, nreq) ==
    {c \in {<<>>, <<left>>} :
        /\ c = <<>> => left = 0
        /\ (c # <<>> /\ n = 0) => nreq < MaxRequests}

\* The well-formed responses of getAuthorFeed to a request with cursor cur,
\* the nreq-th of its scan: a page of at most Limit posts and a cursor.
Responses(h, cur, nreq) ==
    LET remaining == Remaining(h, cur)
        start == Len(h) - remaining
        sizes == {n \in PageSizes \cup {Min(remaining, Limit)} :
                     n <= remaining /\ n <= Limit}
    IN  UNION {{[feed |-> SubSeq(h, start + 1, start + n), cursor |-> c] :
                   c \in CursorsAfter(remaining - n, n, nreq)} : n \in sizes}

\* ------------------------------------------------------------------- state

\* The runs: each a process of its own, sharing the feed file, the
\* environment and the account.
Runs == {"r1", "r2"}

VARIABLES
    env,        \* process.env: whether each credential is set (and non-empty)
    rssFile,    \* the feed document at rssUrl
    history,    \* the account's posts, most recent first
    run,        \* each run's position, locals and counts of network calls
    disk,       \* the file system: the directories and files that exist
    job         \* a call of one of the build functions: arguments and outcome

vars == <<env, rssFile, history, run, disk, job>>

\* Nothing on disk, and no build function called.
NoDisk == {}

NoJob == [fn |-> "none", pc |-> "IDLE"]

Terminal == {"DONE", "ABORT", "RETURNED", "THREW"}

IdleRun ==
    [pc |-> "INIT", caller |-> "none", after |-> {},
     latestPost |-> [title |-> Undefined, link |-> Undefined],
     session |-> FALSE,
     cursor |-> <<>>, hasMore |-> FALSE, postsChecked |-> 0,
     alreadyPosted |-> FALSE, lastResponse |-> "none",
     text |-> Undefined, url |-> Undefined, record |-> NoRecordItem,
     errorMessage |-> "", exitCode |-> 0,
     logins |-> 0, fetches |-> 0, creates |-> 0]

ThrownExitZero(rr, msg) ==
    IF rr.caller = "postLatestToBluesky"
    THEN [rr EXCEPT !.pc = "ABORT", !.errorMessage = msg]
    ELSE [rr EXCEPT !.pc = "THREW", !.errorMessage = msg]

\* An error thrown in run r: postLatestToBluesky catches it, logs the
\* message and exits with status 1; a direct call of sendBlueskyPost
\* rejects.
Thrown(rr, msg) ==
    IF rr.caller = "postLatestToBluesky"
    THEN [rr EXCEPT !.pc = "ABORT", !.errorMessage = msg, !.exitCode = 1]
    ELSE [rr EXCEPT !.pc = "THREW", !.errorMessage = msg]

\* --------------------------------------------------------- getLatestRSSPost

GetLatestRSSPostLast(file) ==
    LET none == [title |-> Undefined, link |-> Undefined]
    IN  IF file.kind = "unreadable"
        THEN [error |-> "ENOENT: no such file or directory", post |-> none]
        ELSE IF file.kind = "malformed"
        THEN [error |-> "Feed not recognized as RSS", post |-> none]
        ELSE IF Len(file.items) = 0
        THEN [error |-> "No items found in RSS feed", post |-> none]
        ELSE [error |-> "",
              post |-> [title |-> OrElse(file.items[Len(file.items)].title, <<>>),
                        link |-> OrElse(file.items[Len(file.items)].link, <<>>)]]

\* The result of getLatestRSSPost: an error message, or "" and the entry.
GetLatestRSSPost(file) ==
    LET none == [title |-> Undefined, link |-> Undefined]
    IN  IF file.kind = "unreadable"
        THEN [error |-> "ENOENT: no such file or directory", post |-> none]
        ELSE IF file.kind = "malformed"
        THEN [error |-> "Feed not recognized as RSS", post |-> none]
        ELSE IF Len(file.items) = 0
        THEN [error |-> "No items found in RSS feed", post |-> none]
        ELSE [error |-> "",
              post |-> [title |-> OrElse(file.items[1].title, <<>>),
                        link |-> OrElse(file.items[1].link, <<>>)]]

\* A direct call getLatestRSSPost(rssUrl): it returns the entry or rejects.
GetLatestCall(r) ==
    /\ run[r].pc = "PARSE"
    /\ LET got == GetLatestRSSPost(rssFile)
       IN  run' = [run EXCEPT ![r] =
               IF got.error # "" THEN Thrown(@, got.error)
               ELSE [@ EXCEPT !.pc = "RETURNED", !.latestPost = got.post]]
    /\ UNCHANGED <<env, rssFile, history, disk, job>>

\* ---------------------------------------------------------- getBlueskyAgent

MissingCredentialUsernameOnly(e) ==
    IF ~e.BLUESKY_USERNAME
    THEN "BLUESKY_USERNAME environment variable is not set"
    ELSE ""

\* What getBlueskyAgent throws before it logs in, or "".
MissingCredential(e) ==
    IF ~e.BLUESKY_USERNAME
    THEN "BLUESKY_USERNAME environment variable is not set"
    ELSE IF ~e.BLUESKY_PASSWORD
    THEN "BLUESKY_PASSWORD environment variable is not set"
    ELSE ""

\* ----------------------------------------------------- postLatestToBluesky

NewPost == <<"N", "e", "w", "sp", "p", "o", "s", "t">>

PostTextNoFallback(title) == title

\* const postText = `${latestPost.title}` || "New post"
PostText(title) == OrElse(title, NewPost)

SendEnteredUnchecked(rr, text, url) ==
    [rr EXCEPT !.pc = "SEND", !.text = text, !.url = url]

\* sendBlueskyPost up to its first await: the text check.
SendEntered(rr, text, url) ==
    IF Falsy(text)
    THEN Thrown(rr, "Post text is required")
    ELSE [rr EXCEPT !.pc = "SEND", !.text = text, !.url = url]

\* The runs that start before run r: runs are named in the order they start.
Earlier(r) == IF r = "r2" THEN {"r1"} ELSE {}

\* Reading the feed and checking the entry's link.
PostLatestStart(r) ==
    /\ run[r].pc = "INIT"
    /\ \A q \in Earlier(r) : run[q].pc # "INIT"
    /\ LET got == GetLatestRSSPost(rssFile)
           rr == [run[r] EXCEPT !.caller = "postLatestToBluesky",
                                !.after = {q \in Runs : run[q].pc \in Terminal}]
       IN  run' = [run EXCEPT ![r] =
               IF got.error # "" THEN Thrown(rr, got.error)
               ELSE IF Falsy(got.post.link)
               THEN Thrown(rr, "Latest RSS post has no link")
               ELSE [rr EXCEPT !.pc = "FEED_READ", !.latestPost = got.post]]
    /\ UNCHANGED <<env, rssFile, history, disk, job>>

\* const agent = await getBlueskyAgent(), and hasLinkBeenPosted up to its
\* first request.
PostLatestLogin(r) ==
    /\ run[r].pc = "FEED_READ"
    /\ \E ok \in BOOLEAN :
        run' = [run EXCEPT ![r] =
            IF MissingCredential(env) # "" THEN Thrown(@, MissingCredential(env))
            ELSE IF ~ok
            THEN Thrown([@ EXCEPT !.logins = @ + 1], "Invalid identifier or password")
            ELSE [@ EXCEPT !.logins = @ + 1, !.session = TRUE,
                           !.pc = "AUTHENTICATED",
                           !.cursor = <<>>, !.hasMore = TRUE, !.postsChecked = 0]]
    /\ UNCHANGED <<env, rssFile, history, disk, job>>

ScanFailureThrows(rr) == Thrown(rr, "Could not search for previous posts")

\* The catch block of hasLinkBeenPosted, and the break on a response
\* without data.feed: the scan returns false.
ScanFailure(rr) == [rr EXCEPT !.pc = "DEDUP_CHECKED", !.alreadyPosted = FALSE]

\* One turn of the loop of hasLinkBeenPosted: the request, and the
\* inspection of the page that comes back.
FetchPage(r) ==
    /\ run[r].pc = "AUTHENTICATED"
    /\ \E outcome \in {"page", "failed", "malformed"} :
       \E resp \in Responses(history, run[r].cursor, run[r].fetches + 1) :
        LET rr == [run[r] EXCEPT !.fetches = @ + 1, !.lastResponse = outcome]
            link == rr.latestPost.link
            checked == rr.postsChecked + Inspected(resp.feed, link)
            more == resp.cursor # <<>>
        IN  run' = [run EXCEPT ![r] =
                IF outcome # "page" THEN ScanFailure(rr)
                ELSE IF FirstMatch(resp.feed, link) # 0
                THEN [rr EXCEPT !.postsChecked = checked,
                                !.pc = "DEDUP_CHECKED", !.alreadyPosted = TRUE]
                ELSE IF LoopGoesOn(more, checked)
                THEN [rr EXCEPT !.postsChecked = checked,
                                !.cursor = resp.cursor, !.hasMore = more]
                ELSE [rr EXCEPT !.postsChecked = checked,
                                !.cursor = resp.cursor, !.hasMore = more,
                                !.pc = "DEDUP_CHECKED", !.alreadyPosted = FALSE]]
    /\ UNCHANGED <<env, rssFile, history, disk, job>>

\* The responses CursorsAfter leaves out: a page without posts that carries
\* a cursor, to any request of the scan.  The cursor is opaque to the
\* caller; the server issues a fresh one each time (its second component).
\* The for loop inspects nothing, lines 139-140 take the cursor and the
\* while condition is tested again.  The count of requests stops at
\* MaxFetchesCounted.
FetchEmptyPage(r) ==
    /\ run[r].pc = "AUTHENTICATED"
    /\ LET left == Remaining(history, run[r].cursor)
           fresh == IF Len(run[r].cursor) = 2 THEN 1 - run[r].cursor[2] ELSE 0
           resp == [feed |-> <<>>, cursor |-> <<left, fresh>>]
           rr == [run[r] EXCEPT
                     !.fetches = IF @ >= MaxFetchesCounted THEN @ ELSE @ + 1,
                     !.lastResponse = "page"]
           checked == rr.postsChecked + Inspected(resp.feed, rr.latestPost.link)
           more == resp.cursor # <<>>
       IN  run' = [run EXCEPT ![r] =
               IF LoopGoesOn(more, checked)
               THEN [rr EXCEPT !.postsChecked = checked,
                               !.cursor = resp.cursor, !.hasMore = more]
               ELSE [rr EXCEPT !.postsChecked = checked,
                               !.cursor = resp.cursor, !.hasMore = more,
                               !.pc = "DEDUP_CHECKED", !.alreadyPosted = FALSE]]
    /\ UNCHANGED <<env, rssFile, history, disk, job>>

SkipsNever(alreadyPosted) == FALSE

SkipsInverted(alreadyPosted) == ~alreadyPosted

\* if (alreadyPosted) { ...; return; }
Skips(alreadyPosted) == alreadyPosted

\* hasLinkBeenPosted has returned and its locals are gone.
\* if (alreadyPosted) return; otherwise the call of sendBlueskyPost.
PostLatestDecide(r) ==
    /\ run[r].pc = "DEDUP_CHECKED"
    /\ LET rr == [run[r] EXCEPT !.cursor = <<>>, !.hasMore = FALSE, !.postsChecked = 0]
       IN  run' = [run EXCEPT ![r] =
               IF Skips(rr.alreadyPosted) THEN [rr EXCEPT !.pc = "DONE"]
               ELSE SendEntered(rr, PostText(rr.latestPost.title),
                                rr.latestPost.link)]
    /\ UNCHANGED <<env, rssFile, history, disk, job>>

\* --------------------------------------------------------- sendBlueskyPost

\* A direct call sendBlueskyPost(text, url).
SendCall(r) ==
    /\ run[r].pc = "CALLED"
    /\ run' = [run EXCEPT ![r] = SendEntered(@, @.text, @.url)]
    /\ UNCHANGED <<env, rssFile, history, disk, job>>

\* const agent = await getBlueskyAgent(), and the building of the record.
SendLogin(r) ==
    /\ run[r].pc = "SEND"
    /\ \E ok \in BOOLEAN :
        run' = [run EXCEPT ![r] =
            IF MissingCredential(env) # "" THEN Thrown(@, MissingCredential(env))
            ELSE IF ~ok
            THEN Thrown([@ EXCEPT !.logins = @ + 1], "Invalid identifier or password")
            ELSE [@ EXCEPT !.logins = @ + 1, !.session = TRUE,
                           !.pc = "FACET_BUILT",
                           !.record = BuildRecord(run[r].text, run[r].url)]]
    /\ UNCHANGED <<env, rssFile, history, disk, job>>

CreateRecordRetries(r) ==
    /\ run[r].pc = "FACET_BUILT"
    /\ \E ok \in BOOLEAN :
        /\ run' = [run EXCEPT ![r] =
               IF ~ok /\ run[r].creates >= 1
               THEN Thrown([@ EXCEPT !.creates = @ + 1], "createRecord failed")
               ELSE IF ~ok THEN [@ EXCEPT !.creates = @ + 1]
               ELSE [@ EXCEPT !.creates = @ + 1,
                              !.pc = IF run[r].caller = "postLatestToBluesky"
                                     THEN "DONE" ELSE "RETURNED"]]
        /\ history' = IF ok THEN <<run[r].record>> \o history ELSE history
    /\ UNCHANGED <<env, rssFile, disk, job>>

\* await agent.api.com.atproto.repo.createRecord(...), and the return.
CreateRecord(r) ==
    /\ run[r].pc = "FACET_BUILT"
    /\ \E ok \in BOOLEAN :
        /\ run' = [run EXCEPT ![r] =
               IF ~ok THEN Thrown([@ EXCEPT !.creates = @ + 1], "createRecord failed")
               ELSE [@ EXCEPT !.creates = @ + 1,
                              !.pc = IF run[r].caller = "postLatestToBluesky"
                                     THEN "DONE" ELSE "RETURNED"]]
        /\ history' = IF ok THEN <<run[r].record>> \o history ELSE history
    /\ UNCHANGED <<env, rssFile, disk, job>>

\* ------------------------------------------------------------------ inputs

Envs == [BLUESKY_USERNAME : BOOLEAN, BLUESKY_PASSWORD : BOOLEAN]

Links == {<<"u">>, <<"u", "v">>}

\* Entries of a feed: a title and a link, either of which may be missing.
Items ==
    [title : {Undefined, <<"e2", "sp">>, <<"u", "v">>},
     link : {Undefined, <<>>} \cup Links]

OlderItems == {[title |-> <<"a">>, link |-> <<"u">>]}

Feeds ==
    {[kind |-> "unreadable", items |-> <<>>], [kind |-> "malformed", items |-> <<>>]}
    \cup {[kind |-> "ok", items |-> is] :
            is \in {<<>>} \cup {<<i>> : i \in Items}
                          \cup {<<i, j>> : i \in Items, j \in OlderItems}}

\* A post with no link in it.
Filler == BuildRecord(<<"a">>, Undefined)

\* Posts that mention link l one way or another, and an item with no record.
Marked(l) ==
    {BuildRecord(<<"a">>, l),
     [record |-> TRUE, text |-> <<"a", "sp">> \o l, facets |-> <<>>],
     [record |-> TRUE, text |-> <<"a">>, facets |-> <<LinkFacet(0, 1, l)>>],
     [record |-> TRUE, text |-> <<"a">>,
      facets |-> <<[index |-> [byteStart |-> 0, byteEnd |-> 1],
                    features |-> <<[type |-> MentionType, uri |-> l]>>]>>],
     NoRecordItem}

\* Histories of the given lengths: fillers, with at most one marked post.
Histories(lens, positions, marked) ==
    {[i \in 1..n |-> Filler] : n \in lens}
    \cup {[i \in 1..n |-> IF i = p THEN m ELSE Filler] :
            <<n, p, m>> \in {t \in lens \X positions \X marked : t[2] <= t[1]}}

Init ==
    /\ disk = NoDisk
    /\ job = NoJob
    /\ env \in Envs
    /\ rssFile \in Feeds
    /\ history \in Histories({0, 2, 99, 101}, {1, 101},
                              {BuildRecord(<<"a">>, l) : l \in Links} \cup {NoRecordItem})
    /\ run = [r \in Runs |-> IdleRun]

\* Runs do not overlap: the deployment starts one at a time.
NoRunActive == \A q \in Runs : run[q].pc \in Terminal \cup {"INIT"}

Next ==
    \E r \in Runs :
        \/ NoRunActive /\ PostLatestStart(r)
        \/ PostLatestLogin(r)
        \/ FetchPage(r)
        \/ PostLatestDecide(r)
        \/ SendLogin(r)
        \/ CreateRecord(r)

Spec == Init /\ [][Next]_vars

\* ------------------------------------------- sendBlueskyPost called directly

Texts == {Encode16(cs) : cs \in CharSeqs(MaxTextChars)} \cup {Undefined}

Urls == {Undefined, <<>>} \cup Links

InitSend ==
    /\ disk = NoDisk
    /\ job = NoJob
    /\ env \in Envs
    /\ rssFile = [kind |-> "unreadable", items |-> <<>>]
    /\ history = <<>>
    /\ \E t \in Texts, u \in Urls :
        run = [r \in Runs |->
                  IF r = "r1"
                  THEN [IdleRun EXCEPT !.pc = "CALLED", !.caller = "direct",
                                       !.text = t, !.url = u]
                  ELSE IdleRun]

NextSend == \E r \in Runs : SendCall(r) \/ SendLogin(r) \/ CreateRecord(r)

SpecSend == InitSend /\ [][NextSend]_vars

\* ------------------------------------------------- hasLinkBeenPosted alone

\* hasLinkBeenPosted(agent, link) entered with a logged-in agent.
InitScan ==
    /\ disk = NoDisk
    /\ job = NoJob
    /\ env = [BLUESKY_USERNAME |-> TRUE, BLUESKY_PASSWORD |-> TRUE]
    /\ history \in Histories({0, 1, 99, 100, 101, 160, 199, 200},
                              {1, 60, 100, 101, 160, 199},
                              UNION {Marked(l) : l \in Links})
    /\ \E l \in Links :
        /\ rssFile = [kind |-> "ok", items |-> <<[title |-> <<"a">>, link |-> l]>>]
        /\ run = [r \in Runs |->
                     IF r = "r1"
                     THEN [IdleRun EXCEPT !.pc = "AUTHENTICATED",
                                          !.caller = "postLatestToBluesky",
                                          !.latestPost = [title |-> <<"a">>, link |-> l],
                                          !.session = TRUE, !.logins = 1,
                                          !.hasMore = TRUE]
                     ELSE IdleRun]

NextScan == \E r \in Runs : FetchPage(r)

SpecScan == InitScan /\ [][NextScan]_vars

\* -------------------------------------------------- getLatestRSSPost alone

\* Feeds of up to MaxFeedItems items, each with or without title and link.
FeedsOfItems ==
    {[kind |-> "unreadable", items |-> <<>>], [kind |-> "malformed", items |-> <<>>]}
    \cup {[kind |-> "ok", items |-> is] :
            is \in UNION {[1..n -> Items] : n \in 0..MaxFeedItems}}

InitFeed ==
    /\ disk = NoDisk
    /\ job = NoJob
    /\ env = [BLUESKY_USERNAME |-> TRUE, BLUESKY_PASSWORD |-> TRUE]
    /\ rssFile \in FeedsOfItems
    /\ history = <<>>
    /\ run = [r \in Runs |->
                 IF r = "r1"
                 THEN [IdleRun EXCEPT !.pc = "PARSE", !.caller = "direct"]
                 ELSE IdleRun]

NextFeed == \E r \in Runs : GetLatestCall(r)

SpecFeed == InitFeed /\ [][NextFeed]_vars

\* -------------------------------------------------------- overlapping runs

\* Two runs started with nothing keeping them apart.
InitRace ==
    /\ disk = NoDisk
    /\ job = NoJob
    /\ env \in Envs
    /\ rssFile \in Feeds
    /\ history \in Histories({0, 2}, {1},
                              {BuildRecord(<<"a">>, l) : l \in Links} \cup {NoRecordItem})
    /\ run = [r \in Runs |-> IdleRun]

NextRace ==
    \E r \in Runs :
        \/ PostLatestStart(r)
        \/ PostLatestLogin(r)
        \/ FetchPage(r)
        \/ PostLatestDecide(r)
        \/ SendLogin(r)
        \/ CreateRecord(r)

SpecRace == InitRace /\ [][NextRace]_vars

\* ------------------------------------------------------------- termination

\* Runs one after the other, against a server free to answer any request
\* of a scan with an empty page and a cursor.
InitLive ==
    /\ disk = NoDisk
    /\ job = NoJob
    /\ env \in Envs
    /\ rssFile \in Feeds
    /\ history \in Histories({0, 2}, {1},
                              {BuildRecord(<<"a">>, l) : l \in Links} \cup {NoRecordItem})
    /\ run = [r \in Runs |-> IdleRun]

\* The steps of run r once it has started: each is the return of a
\* network call, or its failure, and the code up to the next call.
Progress(r) ==
    \/ PostLatestLogin(r)
    \/ FetchPage(r)
    \/ FetchEmptyPage(r)
    \/ PostLatestDecide(r)
    \/ SendLogin(r)
    \/ CreateRecord(r)

NextLive ==
    \E r \in Runs :
        \/ NoRunActive /\ PostLatestStart(r)
        \/ Progress(r)

\* Every network call eventually returns or fails.
SpecLive == InitLive /\ [][NextLive]_vars /\ \A r \in Runs : WF_vars(Progress(r))

\* ----------------------------------------------------------------- fetchCSS

\* JavaScript values handed to the build functions: a string carries its
\* characters, any other value only its typeof.
Str(val) == [type |-> "string", val |-> val]

NonStrings == {[type |-> "undefined"], [type |-> "number"], [type |-> "object"]}

Null == <<"null">>

\* String.prototype.trim, over texts whose only white space is "sp".
RECURSIVE TrimStart(_)
TrimStart(t) == IF t # <<>> /\ Head(t) = "sp" THEN TrimStart(Tail(t)) ELSE t

RECURSIVE TrimEnd(_)
TrimEnd(t) ==
    IF t # <<>> /\ t[Len(t)] = "sp" THEN TrimEnd(SubSeq(t, 1, Len(t) - 1)) ELSE t

Trim(t) == TrimEnd(TrimStart(t))

\* typeof x !== "string" || x.trim() === ""
NotNonEmptyString(x) == x.type # "string" \/ Trim(x.val) = <<>>

\* new URL(url) does not throw.  A text is written in the pieces "https://h"
\* (scheme and host), "/p" (a path segment) and "sp"; the parser drops
\* spaces at both ends, wants the scheme first, and takes no space in the
\* host.
ValidUrl(val) ==
    LET t == Trim(val)
    IN  /\ t # <<>>
        /\ t[1] = "https://h"
        /\ Len(t) >= 2 => t[2] # "sp"

\* Status codes of a response, and bodies.
Statuses == {200, 299, 199, 300, 404, 500}

Bodies == {<<>>, <<"a">>}

ResponseOkAlways(status) == TRUE

\* response.ok
ResponseOk(status) == status >= 200 /\ status <= 299

\* fetchCSS(url) up to its first await: the validation, then fetch(url).
FetchCSSCall ==
    /\ job.fn = "fetchCSS" /\ job.pc = "CALLED"
    /\ job' = IF NotNonEmptyString(job.url)
              THEN [job EXCEPT !.pc = "REJECTED",
                               !.error = "fetchCSS: 'url' must be a non-empty string"]
              ELSE IF ~ValidUrl(job.url.val)
              THEN [job EXCEPT !.pc = "REJECTED",
                               !.error = "fetchCSS: not a valid URL"]
              ELSE [job EXCEPT !.pc = "FETCHING", !.fetches = @ + 1]
    /\ UNCHANGED <<env, rssFile, history, run, disk>>

\* await fetch(url) settles: it rejects, or resolves with a response.
FetchCSSResponse ==
    /\ job.fn = "fetchCSS" /\ job.pc = "FETCHING"
    /\ \/ job' = [job EXCEPT !.pc = "RESOLVED", !.fetched = "failed",
                             !.result = Null]
       \/ \E status \in Statuses :
            LET got == [job EXCEPT !.fetched = "response", !.status = status]
            IN  job' = IF ~ResponseOk(status)
                       THEN [got EXCEPT !.pc = "RESOLVED", !.result = Null]
                       ELSE [got EXCEPT !.pc = "READING"]
    /\ UNCHANGED <<env, rssFile, history, run, disk>>

\* await response.text() settles: it rejects, or resolves with the body.
FetchCSSText ==
    /\ job.fn = "fetchCSS" /\ job.pc = "READING"
    /\ \/ job' = [job EXCEPT !.pc = "RESOLVED", !.read = "failed", !.result = Null]
       \/ \E body \in Bodies :
            job' = [job EXCEPT !.pc = "RESOLVED", !.read = "text", !.body = body,
                               !.result = body]
    /\ UNCHANGED <<env, rssFile, history, run, disk>>

RECURSIVE SeqsUpTo(_, _)
SeqsUpTo(S, n) ==
    IF n = 0 THEN {<<>>}
    ELSE SeqsUpTo(S, n - 1)
         \cup {Append(q, x) : q \in {w \in SeqsUpTo(S, n - 1) : Len(w) = n - 1}, x \in S}

UrlPieces == {"sp", "https://h", "/p"}

UrlArgs == NonStrings \cup {Str(t) : t \in SeqsUpTo(UrlPieces, MaxUrlPieces)}

InitFetch ==
    /\ disk = NoDisk
    /\ env = [BLUESKY_USERNAME |-> TRUE, BLUESKY_PASSWORD |-> TRUE]
    /\ rssFile = [kind |-> "unreadable", items |-> <<>>]
    /\ history = <<>>
    /\ run = [r \in Runs |-> IdleRun]
    /\ \E u \in UrlArgs :
        job = [fn |-> "fetchCSS", pc |-> "CALLED", url |-> u, fetches |-> 0,
               fetched |-> "none", status |-> 0, read |-> "none", body |-> <<>>,
               result |-> Undefined,
               error |-> ""]

NextFetch == FetchCSSCall \/ FetchCSSResponse \/ FetchCSSText

SpecFetch == InitFetch /\ [][NextFetch]_vars

\* ---------------------------------------------------------- the file system

\* A path is the sequence of its names, from the working directory, which
\* is <<>>.  A node of the disk is a directory or a file at a path; made
\* tells whether it was there before the call or was made by it.
Paths(d) == {n.path : n \in d}

\* fs.existsSync(p)
Exists(d, p) == p = <<>> \/ p \in Paths(d)

NodeAt(d, p) == CHOOSE n \in d : n.path = p

IsDir(d, p) == p = <<>> \/ \E n \in d : n.path = p /\ n.kind = "dir"

IsFile(d, p) == \E n \in d : n.path = p /\ n.kind = "file"

\* path.dirname(p)
Parent(p) == SubSeq(p, 1, Len(p) - 1)

\* q lies below p.
Within(p, q) == Len(q) > Len(p) /\ SubSeq(q, 1, Len(p)) = p

NewDir(p) == [path |-> p, kind |-> "dir", made |-> "call", content |-> <<>>]

NewFile(p, content) == [path |-> p, kind |-> "file", made |-> "call", content |-> content]

OldDir(p) == [path |-> p, kind |-> "dir", made |-> "before", content |-> <<>>]

OldFile(p) == [path |-> p, kind |-> "file", made |-> "before", content |-> <<"old">>]

RmNotRecursive(d, p) == {n \in d : n.path # p}

\* fs.rmSync(p, { recursive: true, force: true })
RmRecursive(d, p) == {n \in d : n.path # p /\ ~Within(p, n.path)}

\* fs.mkdirSync(p): the error it throws, or "" and the new disk.
Mkdir(d, p) ==
    IF Exists(d, p) THEN [error |-> "EEXIST", disk |-> d]
    ELSE IF ~Exists(d, Parent(p)) THEN [error |-> "ENOENT", disk |-> d]
    ELSE IF ~IsDir(d, Parent(p)) THEN [error |-> "ENOTDIR", disk |-> d]
    ELSE [error |-> "", disk |-> d \cup {NewDir(p)}]

\* The disks made of some of the given nodes: one node to a path, each in
\* a directory.
DisksOf(nodes) ==
    {d \in SUBSET nodes :
        /\ \A m, n \in d : m.path = n.path => m = n
        /\ \A n \in d : IsDir(d, Parent(n.path))}

\* ---------------------------------------------------------------- setupDist

DIST_PATH == <<"dist">>

\* The loop of fs.mkdirSync(DIST_PATH + "/" + paths[i]) from index i on.
RECURSIVE MkdirEach(_, _, _)
MkdirEach(d, paths, i) ==
    IF i > Len(paths) THEN [error |-> "", disk |-> d]
    ELSE IF Exists(d, DIST_PATH \o paths[i].val) THEN MkdirEach(d, paths, i + 1)
    ELSE LET made == Mkdir(d, DIST_PATH \o paths[i].val)
         IN  IF made.error # "" THEN made ELSE MkdirEach(made.disk, paths, i + 1)

\* setupDist(paths): the error it throws, or "", and the disk it leaves.
SetupDist(d, paths) ==
    IF paths.type # "array"
    THEN [error |-> "setupDist: 'paths' must be an array", disk |-> d]
    ELSE IF \E i \in 1..Len(paths.val) : paths.val[i].type # "string"
    THEN [error |-> "setupDist: Each path must be a string", disk |-> d]
    ELSE IF \E i \in 1..Len(paths.val) : NotNonEmptyString(paths.val[i])
    THEN [error |-> "setupDist: Path is an empty string", disk |-> d]
    ELSE LET cleared == IF Exists(d, DIST_PATH) THEN RmRecursive(d, DIST_PATH) ELSE d
             made == Mkdir(cleared, DIST_PATH)
         IN  IF made.error # "" THEN made
             ELSE MkdirEach(made.disk, paths.val, 1)

SetupDistCall ==
    /\ job.fn = "setupDist" /\ job.pc = "CALLED"
    /\ LET out == SetupDist(disk, job.paths)
       IN  /\ disk' = out.disk
           /\ job' = [job EXCEPT !.pc = IF out.error = "" THEN "RETURNED" ELSE "THREW",
                                 !.error = out.error]
    /\ UNCHANGED <<env, rssFile, history, run>>

\* Names of subdirectories: "css", "js" and "css/a"; a blank string; a
\* number.
DistNames ==
    {Str(<<"css">>), Str(<<"js">>), Str(<<"css", "a">>), Str(<<"sp">>),
     [type |-> "number"]}

DistPathsArgs ==
    {[type |-> "string"]}
    \cup {[type |-> "array", val |-> q] : q \in SeqsUpTo(DistNames, MaxDistPaths)}

DistDisks ==
    DisksOf({OldDir(<<"src">>), OldDir(DIST_PATH), OldFile(DIST_PATH),
             OldDir(<<"dist", "css">>), OldFile(<<"dist", "css">>),
             OldFile(<<"dist", "old">>), OldDir(<<"dist", "css", "a">>)})

InitDist ==
    /\ disk \in DistDisks
    /\ env = [BLUESKY_USERNAME |-> TRUE, BLUESKY_PASSWORD |-> TRUE]
    /\ rssFile = [kind |-> "unreadable", items |-> <<>>]
    /\ history = <<>>
    /\ run = [r \in Runs |-> IdleRun]
    /\ \E a \in DistPathsArgs :
        job = [fn |-> "setupDist", pc |-> "CALLED", paths |-> a, before |-> disk,
               error |-> ""]

NextDist == SetupDistCall

SpecDist == InitDist /\ [][NextDist]_vars

\* ----------------------------------------------------------- mirrorDirectory

\* fs.mkdirSync(p, { recursive: true }): every missing directory down to p.
RECURSIVE MkdirRecursive(_, _)
MkdirRecursive(d, p) ==
    IF p = <<>> THEN [error |-> "", disk |-> d]
    ELSE LET up == MkdirRecursive(d, Parent(p))
         IN  IF up.error # "" THEN up
             ELSE IF IsDir(up.disk, p) THEN up
             ELSE IF Exists(up.disk, p) THEN [error |-> "EEXIST", disk |-> up.disk]
             ELSE IF ~IsDir(up.disk, Parent(p))
             THEN [error |-> "ENOTDIR", disk |-> up.disk]
             ELSE [error |-> "", disk |-> up.disk \cup {NewDir(p)}]

\* fs.readdirSync(p, { withFileTypes: true }): the names of the
\* directories among the entries.
SubdirNames(d, p) ==
    {n.path[Len(n.path)] : n \in {m \in d : Parent(m.path) = p /\ m.kind = "dir"}}

RECURSIVE Mirror(_, _, _)
RECURSIVE MirrorEntries(_, _, _, _)

\* The for loop over the entries read: names are the directories still to
\* be mirrored.
MirrorEntries(d, names, src, dest) ==
    IF names = {} THEN [error |-> "", disk |-> d]
    ELSE LET name == CHOOSE x \in names : TRUE
             sub == Mirror(d, Append(src, name), Append(dest, name))
         IN  IF sub.error # "" THEN sub
             ELSE MirrorEntries(sub.disk, names \ {name}, src, dest)

\* mirrorDirectory(src, dest) on two paths, from the check of the source
\* on.
Mirror(d, src, dest) ==
    IF ~Exists(d, src)
    THEN [error |-> "mirrorDirectory: Source directory does not exist", disk |-> d]
    ELSE LET made == IF ~Exists(d, dest) THEN MkdirRecursive(d, dest)
                     ELSE [error |-> "", disk |-> d]
         IN  IF made.error # "" THEN made
             ELSE IF ~IsDir(made.disk, src) THEN [error |-> "ENOTDIR", disk |-> made.disk]
             ELSE MirrorEntries(made.disk, SubdirNames(made.disk, src), src, dest)

\* mirrorDirectory(src, dest): the error it throws, or "", and the disk it
\* leaves.
MirrorDirectory(d, src, dest) ==
    IF NotNonEmptyString(src)
    THEN [error |-> "mirrorDirectory: 'src' must be a non-empty string", disk |-> d]
    ELSE IF NotNonEmptyString(dest)
    THEN [error |-> "mirrorDirectory: 'dest' must be a non-empty string", disk |-> d]
    ELSE Mirror(d, src.val, dest.val)

\* A call of mirrorDirectory, the first or one after a call that returned.
MirrorCall ==
    /\ job.fn = "mirrorDirectory" /\ job.pc = "CALLED"
    /\ LET out == MirrorDirectory(disk, job.src, job.dest)
       IN  /\ disk' = out.disk
           /\ job' = [job EXCEPT !.pc = IF out.error = "" THEN "RETURNED" ELSE "THREW",
                                 !.error = out.error,
                                 !.calls = @ + 1,
                                 !.previous = disk]
    /\ UNCHANGED <<env, rssFile, history, run>>

MirrorAgain ==
    /\ job.fn = "mirrorDirectory" /\ job.pc = "RETURNED" /\ job.calls < MaxMirrorCalls
    /\ job' = [job EXCEPT !.pc = "CALLED"]
    /\ UNCHANGED <<env, rssFile, history, run, disk>>

MirrorArgs ==
    {[type |-> "number"], Str(<<"sp">>), Str(<<"src">>), Str(<<"gone">>),
     Str(<<"dist">>), Str(<<"out", "deep">>)}

\* Disks with a source tree under "src" and whatever is under "dist".
MirrorDisks ==
    DisksOf({OldDir(<<"src">>), OldFile(<<"src">>),
             OldDir(<<"src", "a">>), OldFile(<<"src", "f">>),
             OldDir(<<"src", "a", "b">>), OldFile(<<"src", "a", "g">>),
             OldDir(<<"dist">>), OldFile(<<"dist">>),
             OldDir(<<"dist", "a">>), OldFile(<<"dist", "a">>),
             OldFile(<<"out">>)})

InitMirror ==
    /\ disk \in MirrorDisks
    /\ env = [BLUESKY_USERNAME |-> TRUE, BLUESKY_PASSWORD |-> TRUE]
    /\ rssFile = [kind |-> "unreadable", items |-> <<>>]
    /\ history = <<>>
    /\ run = [r \in Runs |-> IdleRun]
    /\ \E s \in MirrorArgs \ {Str(<<"dist">>), Str(<<"out", "deep">>)},
          t \in MirrorArgs \ {Str(<<"src">>), Str(<<"gone">>)} :
        job = [fn |-> "mirrorDirectory", pc |-> "CALLED", src |-> s, dest |-> t,
               calls |-> 0, previous |-> disk, error |-> ""]

NextMirror == MirrorCall \/ MirrorAgain

SpecMirror == InitMirror /\ [][NextMirror]_vars

\* ----------------------------------------------------------------- writeRSS

\* A property an object does not have.
Absent == [type |-> "absent"]

requiredRssFields ==
    <<"title", "siteUrl", "authorName", "authorEmail", "authorSite", "category">>

\* The first complaint of the loop over requiredRssFields from index i on,
\* or "".
RECURSIVE RssFieldError(_, _)
RssFieldError(fields, i) ==
    IF i > Len(requiredRssFields) THEN ""
    ELSE LET v == fields[requiredRssFields[i]]
         IN  IF v = Absent THEN "writeRSS: 'rssData' is missing required property"
             ELSE IF v.type # "string" THEN "writeRSS: 'rssData' field must be a string"
             ELSE IF Trim(v.val) = <<>>
             THEN "writeRSS: 'rssData' field cannot be an empty string"
             ELSE RssFieldError(fields, i + 1)

\* The complaint about one entry, or "".
EntryError(entry) ==
    IF entry.type # "object" THEN "writeRSS: entry must be an object"
    ELSE IF entry.title = Absent \/ entry.title.type # "string"
    THEN "writeRSS: entry must have a 'title' property of type string"
    ELSE IF entry.url = Absent \/ entry.url.type # "string"
    THEN "writeRSS: entry must have a 'url' property of type string"
    ELSE IF entry.date = Absent \/ entry.date.type # "Date"
    THEN "writeRSS: entry must have a 'date' property of type Date"
    ELSE IF ~entry.date.valid THEN "writeRSS: entry date is an invalid Date"
    ELSE ""

\* The complaint of the loop over entries from index i on, or "".
RECURSIVE EntriesError(_, _)
EntriesError(entries, i) ==
    IF i > Len(entries) THEN ""
    ELSE IF EntryError(entries[i]) # "" THEN EntryError(entries[i])
    ELSE EntriesError(entries, i + 1)

\* a ?? b
Coalesce(a, b) == IF a = Absent \/ a.type \in {"null", "undefined"} THEN b ELSE a

\* feed.addItem({...}) for one entry.
RssItem(entry) ==
    [title |-> entry.title, link |-> entry.url,
     content |-> Coalesce(entry.description, entry.content), date |-> entry.date]

RECURSIVE Rss2ItemsReversed(_)
Rss2ItemsReversed(entries) ==
    IF entries = <<>> THEN <<>>
    ELSE Append(Rss2ItemsReversed(Tail(entries)), RssItem(Head(entries)))

\* The items of feed.rss2() after entries.forEach(feed.addItem): one for
\* each entry, in the order added.
Rss2Items(entries) == [i \in 1..Len(entries) |-> RssItem(entries[i])]

\* fs.writeFileSync(p, data): the error it throws, or "" and the new disk.
WriteFile(d, p, data) ==
    IF IsDir(d, p) THEN [error |-> "EISDIR", disk |-> d]
    ELSE IF ~Exists(d, Parent(p)) THEN [error |-> "ENOENT", disk |-> d]
    ELSE IF ~IsDir(d, Parent(p)) THEN [error |-> "ENOTDIR", disk |-> d]
    ELSE [error |-> "", disk |-> {n \in d : n.path # p} \cup {NewFile(p, data)}]

\* writeRSS(rssData, entries, writePath): the error it throws, or "", and
\* the disk it leaves.
WriteRSS(d, rssData, entries, writePath) ==
    IF rssData.type # "object"
    THEN [error |-> "writeRSS: 'rssData' must be an object", disk |-> d]
    ELSE IF RssFieldError(rssData.fields, 1) # ""
    THEN [error |-> RssFieldError(rssData.fields, 1), disk |-> d]
    ELSE IF entries.type # "array"
    THEN [error |-> "writeRSS: 'entries' must be an array", disk |-> d]
    ELSE IF EntriesError(entries.val, 1) # ""
    THEN [error |-> EntriesError(entries.val, 1), disk |-> d]
    ELSE IF NotNonEmptyString(writePath)
    THEN [error |-> "writeRSS: 'writePath' must be a non-empty string", disk |-> d]
    ELSE IF ~Exists(d, Parent(writePath.val))
    THEN [error |-> "writeRSS: Directory does not exist", disk |-> d]
    ELSE WriteFile(d, writePath.val,
                   [title |-> rssData.fields.title,
                    category |-> rssData.fields.category,
                    items |-> Rss2Items(entries.val)])

WriteRSSCall ==
    /\ job.fn = "writeRSS" /\ job.pc = "CALLED"
    /\ LET out == WriteRSS(disk, job.rssData, job.entries, job.writePath)
       IN  /\ disk' = out.disk
           /\ job' = [job EXCEPT !.pc = IF out.error = "" THEN "RETURNED" ELSE "THREW",
                                 !.error = out.error]
    /\ UNCHANGED <<env, rssFile, history, run>>

GoodRssFields == [f \in {requiredRssFields[i] : i \in 1..6} |-> Str(<<"a">>)]

RssDataArgs ==
    {[type |-> "null"], [type |-> "array"],
     [type |-> "object", fields |-> GoodRssFields],
     [type |-> "object", fields |-> [GoodRssFields EXCEPT !.title = Absent]],
     [type |-> "object", fields |-> [GoodRssFields EXCEPT !.siteUrl = Str(<<"sp">>)]],
     [type |-> "object", fields |-> [GoodRssFields EXCEPT !.category = [type |-> "number"]]]}

GoodDate == [type |-> "Date", valid |-> TRUE]

GoodEntry ==
    [type |-> "object", title |-> Str(<<"a">>), url |-> Str(<<"u">>),
     description |-> Str(<<"a">>), content |-> Absent, date |-> GoodDate]

EntryArgs ==
    {[type |-> "null"],
     GoodEntry,
     [GoodEntry EXCEPT !.title = Str(<<>>), !.url = Str(<<"u", "v">>),
                       !.description = Absent, !.content = Str(<<"a", "sp">>)],
     [GoodEntry EXCEPT !.title = Absent],
     [GoodEntry EXCEPT !.url = [type |-> "number"]],
     [GoodEntry EXCEPT !.date = Str(<<"a">>)],
     [GoodEntry EXCEPT !.date = [type |-> "Date", valid |-> FALSE]]}

EntriesArgs ==
    {[type |-> "object"]}
    \cup {[type |-> "array", val |-> q] : q \in SeqsUpTo(EntryArgs, MaxEntries)}

WritePathArgs ==
    {[type |-> "number"], Str(<<"sp">>), Str(<<"dist", "rss.xml">>),
     Str(<<"gone", "rss.xml">>), Str(<<"dist">>), Str(<<"f", "rss.xml">>)}

RssDisks ==
    DisksOf({OldDir(<<"dist">>), OldFile(<<"dist", "rss.xml">>), OldFile(<<"f">>)})

InitRSS ==
    /\ disk \in RssDisks
    /\ env = [BLUESKY_USERNAME |-> TRUE, BLUESKY_PASSWORD |-> TRUE]
    /\ rssFile = [kind |-> "unreadable", items |-> <<>>]
    /\ history = <<>>
    /\ run = [r \in Runs |-> IdleRun]
    /\ \E data \in RssDataArgs, es \in EntriesArgs, wp \in WritePathArgs :
        job = [fn |-> "writeRSS", pc |-> "CALLED", rssData |-> data, entries |-> es,
               writePath |-> wp, before |-> disk, error |-> ""]

NextRSS == WriteRSSCall

SpecRSS == InitRSS /\ [][NextRSS]_vars

\* -------------------------------------------------------------- writeImages

\* The extension of a file name.
Ext(name) ==
    CASE name \in {"a.jpg", "f.jpg"} -> "jpg"
      [] name = "b.gif" -> "gif"
      [] name = "c.png" -> "png"
      [] name = "d.svg" -> "svg"
      [] name = "e.mp4" -> "mp4"
      [] OTHER -> ""

\* globSync(dir + "/**/*.{...}"): the files below dir with one of the
\* extensions.
Glob(d, dir, exts) ==
    {n.path : n \in {m \in d : /\ m.kind = "file"
                               /\ Within(dir, m.path)
                               /\ Ext(m.path[Len(m.path)]) \in exts}}

\* swapRootDir(originalPath, newRootFolder): the first name of the path
\* gives way to the new root.
SwapRootDir(originalPath, newRootFolder) == newRootFolder \o Tail(originalPath)

\* resizeJpg and resizePng up to the start of sharp: the promise is
\* rejected at once when the directory of the output is missing.
ResizeStarts(d, output) == Exists(d, Parent(output))

\* The loop of fs.copyFileSync over the files still to copy.
RECURSIVE CopyEach(_, _, _)
CopyEach(d, files, distDir) ==
    IF files = {} THEN [error |-> "", disk |-> d]
    ELSE LET f == CHOOSE x \in files : TRUE
             out == WriteFile(d, SwapRootDir(f, distDir), NodeAt(d, f).content)
         IN  IF out.error # "" THEN out ELSE CopyEach(out.disk, files \ {f}, distDir)

WriteImagesChecks(d, contentDir, distDir) ==
    IF NotNonEmptyString(contentDir)
    THEN "writeImages: 'contentDir' must be a non-empty string"
    ELSE IF NotNonEmptyString(distDir)
    THEN "writeImages: 'distDir' must be a non-empty string"
    ELSE IF ~Exists(d, contentDir.val) THEN "writeImages: Source directory does not exist"
    ELSE IF ~Exists(d, distDir.val)
    THEN "writeImages: Destination directory does not exist"
    ELSE ""

\* writeImages(contentDir, distDir) from the call to the settling of its
\* promise: no await stands in it.  The resizes are started and left
\* running, the copies are made; a resizing thread may have written its
\* output by then (early), its callback has not run.
WriteImagesCall ==
    /\ job.fn = "writeImages" /\ job.pc = "CALLED"
    /\ LET msg == WriteImagesChecks(disk, job.contentDir, job.distDir)
       IN  IF msg # ""
           THEN /\ job' = [job EXCEPT !.pc = "REJECTED", !.error = msg]
                /\ disk' = disk
           ELSE LET src == job.contentDir.val
                    dist == job.distDir.val
                    images == Glob(disk, src, {"gif", "jpg"}) \cup Glob(disk, src, {"png"})
                    started == {f \in images : ResizeStarts(disk, SwapRootDir(f, dist))}
                    copied == CopyEach(disk, Glob(disk, src, {"svg"})
                                             \cup Glob(disk, src, {"mp4"}), dist)
                IN  \E early \in SUBSET started :
                      /\ job' = [job EXCEPT
                                    !.pc = IF copied.error = "" THEN "RESOLVED"
                                           ELSE "REJECTED",
                                    !.error = copied.error,
                                    !.running = started,
                                    !.written = early,
                                    !.unhandled = images \ started]
                      /\ disk' = {n \in copied.disk :
                                     \A f \in early : n.path # SwapRootDir(f, dist)}
                                 \cup {NewFile(SwapRootDir(f, dist), <<"resized">>) :
                                          f \in early}
    /\ UNCHANGED <<env, rssFile, history, run>>

\* The callback of toFile for image f: the output is written by now, or
\* the resize failed and the promise of resizeJpg or resizePng, which
\* nothing holds, is rejected.
ResizeSettles(f) ==
    /\ job.fn = "writeImages" /\ f \in job.running
    /\ \/ /\ disk' = {n \in disk : n.path # SwapRootDir(f, job.distDir.val)}
                     \cup {NewFile(SwapRootDir(f, job.distDir.val), <<"resized">>)}
          /\ job' = [job EXCEPT !.running = @ \ {f}, !.written = @ \cup {f}]
       \/ /\ f \notin job.written
          /\ disk' = disk
          /\ job' = [job EXCEPT !.running = @ \ {f}, !.unhandled = @ \cup {f}]
    /\ UNCHANGED <<env, rssFile, history, run>>

ImageDirArgs ==
    {[type |-> "number"], Str(<<"sp">>), Str(<<"src">>), Str(<<"dist">>), Str(<<"gone">>)}

ImageDisks ==
    DisksOf({OldDir(<<"src">>), OldDir(<<"dist">>),
             OldFile(<<"src", "a.jpg">>), OldFile(<<"src", "b.gif">>),
             OldFile(<<"src", "c.png">>), OldFile(<<"src", "d.svg">>),
             OldDir(<<"src", "img">>), OldFile(<<"src", "img", "f.jpg">>),
             OldFile(<<"src", "img", "e.mp4">>), OldDir(<<"dist", "img">>)})

InitImages ==
    /\ disk \in ImageDisks
    /\ env = [BLUESKY_USERNAME |-> TRUE, BLUESKY_PASSWORD |-> TRUE]
    /\ rssFile = [kind |-> "unreadable", items |-> <<>>]
    /\ history = <<>>
    /\ run = [r \in Runs |-> IdleRun]
    /\ \E c \in ImageDirArgs \ {Str(<<"dist">>)}, t \in ImageDirArgs \ {Str(<<"src">>)} :
        job = [fn |-> "writeImages", pc |-> "CALLED", contentDir |-> c, distDir |-> t,
               before |-> disk, running |-> {}, written |-> {}, unhandled |-> {},
               error |-> ""]

NextImages ==
    \/ WriteImagesCall
    \/ \E f \in Paths(disk) : ResizeSettles(f)

SpecImages == InitImages /\ [][NextImages]_vars

\* ------------------------------------------------------------- properties

\* The posts the account held before any run created one.
Created == {r \in Runs : run[r].pc \in {"DONE", "RETURNED"} /\ run[r].creates = 1}

InitialHistory == SubSeq(history, 1 + Cardinality(Created), Len(history))

\* The positions of history h whose post the scanner takes for link.
Matching(h, link) == {i \in 1..Len(h) : ItemMatches(h[i], link)}

\* A run of postLatestToBluesky that ended with every call of it answered
\* without a failure.
RanClean(r) ==
    /\ run[r].pc = "DONE"
    /\ run[r].caller = "postLatestToBluesky"
    /\ run[r].lastResponse = "page"

\* C1: two runs, one after the other, on a feed whose latest link no post of
\* a history of fewer than 100 posts matches, every call succeeding: the
\* first run creates one post, the second none, and the account ends with
\* exactly one post matching the link.
C1_ExactlyOnceSequential ==
    (/\ RanClean("r1") /\ RanClean("r2")
     /\ "r1" \in run["r2"].after
     /\ Len(InitialHistory) < 100
     /\ Matching(InitialHistory, run["r1"].latestPost.link) = {})
    => /\ run["r1"].creates = 1
       /\ run["r2"].creates = 0
       /\ Cardinality(Matching(history, run["r1"].latestPost.link)) = 1

C1_Witness ==
    /\ RanClean("r1") /\ RanClean("r2")
    /\ "r1" \in run["r2"].after
    /\ Len(InitialHistory) = 99
    /\ Matching(InitialHistory, run["r1"].latestPost.link) = {}
    /\ run["r1"].creates = 1
    /\ run["r2"].alreadyPosted

\* C2: a run whose duplicate check returned true issues no createRecord
\* request, and it ends in DONE with exit status 0.
C2_DuplicateSkipsSubmission ==
    \A r \in Runs :
        run[r].alreadyPosted =>
            /\ run[r].pc \in {"DEDUP_CHECKED", "DONE"}
            /\ run[r].creates = 0
            /\ run[r].exitCode = 0

C2_Witness ==
    \E r \in Runs :
        run[r].alreadyPosted /\ run[r].pc = "DONE" /\ run[r].fetches >= 1

\* What the specification counts as an occurrence of the link in a post: the
\* link is a substring of its text, or the URI of one of its link facets.
Occurs(post, link) ==
    /\ post.record
    /\ \/ Includes(post.text, link)
       \/ \E f \in 1..Len(post.facets) : \E k \in 1..Len(post.facets[f].features) :
            /\ post.facets[f].features[k].type = LinkType
            /\ post.facets[f].features[k].uri = link

\* C3: a scan no request of which failed returns true exactly when the link
\* occurs in one of the first 100 posts of the history.
C3_TrueIffWithinFirstHundred ==
    \A r \in Runs :
        (run[r].pc = "DEDUP_CHECKED" /\ run[r].lastResponse = "page") =>
            (run[r].alreadyPosted <=>
                \E i \in 1..Min(Len(history), 100) :
                    Occurs(history[i], run[r].latestPost.link))

\* C4: the number of inspected posts never exceeds 100.
C4_PostsCheckedWithinCeiling ==
    \A r \in Runs : run[r].postsChecked <= 100

\* C5: a scan that ends on a failed or malformed response returns false and
\* aborts nothing: the run goes on to sendBlueskyPost, so it ends in DONE
\* only with a createRecord request issued, and in ABORT only from the login
\* of sendBlueskyPost or from createRecord.
C5_ScanFailsOpen ==
    \A r \in Runs :
        run[r].lastResponse \in {"failed", "malformed"} =>
            /\ run[r].pc \in {"DEDUP_CHECKED", "SEND", "FACET_BUILT", "DONE", "ABORT"}
            /\ ~run[r].alreadyPosted
            /\ run[r].pc = "DONE" => run[r].creates = 1
            /\ run[r].pc = "ABORT" => run[r].logins = 2

C5_Witness ==
    \E r \in Runs :
        /\ run[r].lastResponse = "failed"
        /\ run[r].pc = "DEDUP_CHECKED"
        /\ run[r].postsChecked >= 60
        /\ ~run[r].alreadyPosted

\* The record of run r has been built from a url.
BuiltWithUrl(r) ==
    /\ run[r].pc \in {"FACET_BUILT", "DONE", "RETURNED"}
    /\ ~Falsy(run[r].url)

\* C6: when the url occurs in the text, the text is unchanged, byteStart is
\* the UTF-8 byte offset of the url's first occurrence and byteEnd is
\* byteStart plus the UTF-8 length of the url.
C6_ByteOffsetsOfUrlInText ==
    \A r \in Runs :
        (BuiltWithUrl(r) /\ Includes(run[r].text, run[r].url)) =>
            LET first == IndexOf(run[r].text, run[r].url)
                index == run[r].record.facets[1].index
            IN  /\ run[r].record.text = run[r].text
                /\ index.byteStart = Utf8Len(SubSeq(run[r].text, 1, first))
                /\ index.byteEnd = index.byteStart + Utf8Len(run[r].url)

\* C7: when the url does not occur in the text, byteEnd is the UTF-8 length
\* of the new text and byteStart is byteEnd minus the UTF-8 length of the
\* url.
C7_ByteOffsetsOfAppendedUrl ==
    \A r \in Runs :
        (BuiltWithUrl(r) /\ ~Includes(run[r].text, run[r].url)) =>
            LET index == run[r].record.facets[1].index
            IN  /\ index.byteEnd = Utf8Len(run[r].record.text)
                /\ index.byteStart = index.byteEnd - Utf8Len(run[r].url)

EndsWithWhitespace(text) == \E w \in {"sp", "tab", "nl"} : EndsWith(text, <<w>>)

\* C8 as stated: the url is appended with no separator after any trailing
\* whitespace, and after one space otherwise.
C8_NoSeparatorAfterWhitespace ==
    \A r \in Runs :
        (BuiltWithUrl(r) /\ ~Includes(run[r].text, run[r].url)) =>
            run[r].record.text =
                IF EndsWithWhitespace(run[r].text)
                THEN run[r].text \o run[r].url
                ELSE run[r].text \o <<"sp">> \o run[r].url

\* C8 amended: the url is appended with no separator after a trailing space
\* (U+0020), and after one space otherwise, also when the text ends with a
\* tab or a newline.
C8_NoSeparatorAfterSpace ==
    \A r \in Runs :
        (BuiltWithUrl(r) /\ ~Includes(run[r].text, run[r].url)) =>
            run[r].record.text =
                IF EndsWith(run[r].text, <<"sp">>)
                THEN run[r].text \o run[r].url
                ELSE run[r].text \o <<"sp">> \o run[r].url

C8_Witness ==
    \E r \in Runs :
        /\ BuiltWithUrl(r) /\ ~Includes(run[r].text, run[r].url)
        /\ EndsWith(run[r].text, <<"tab">>)
        /\ run[r].record.text = run[r].text \o <<"sp">> \o run[r].url

\* C9: a record built from a url carries exactly one facet, whose range
\* satisfies 0 <= byteStart < byteEnd <= UTF-8 length of the record's text.
C9_FacetRangeInsideText ==
    \A r \in Runs :
        BuiltWithUrl(r) =>
            /\ Len(run[r].record.facets) = 1
            /\ LET index == run[r].record.facets[1].index
               IN  /\ 0 <= index.byteStart
                   /\ index.byteStart < index.byteEnd
                   /\ index.byteEnd <= Utf8Len(run[r].record.text)

C9_Witness ==
    \E r \in Runs :
        /\ BuiltWithUrl(r) /\ run[r].pc = "RETURNED" /\ run[r].creates = 1
        /\ Utf8Len(run[r].record.text) > Len(run[r].record.text)
        /\ history = <<run[r].record>>

\* C10: with a credential unset no run issues a network call, and every run
\* that starts ends in ABORT with exit status 1.
C10_MissingCredentialNoNetwork ==
    \A r \in Runs :
        (~env.BLUESKY_USERNAME \/ ~env.BLUESKY_PASSWORD) =>
            /\ run[r].logins = 0 /\ run[r].fetches = 0 /\ run[r].creates = 0
            /\ run[r].pc \in {"INIT", "FEED_READ", "ABORT"}
            /\ run[r].pc = "ABORT" => run[r].exitCode = 1

C10_Witness ==
    \E r \in Runs :
        /\ run[r].pc = "ABORT"
        /\ run[r].errorMessage = "BLUESKY_PASSWORD environment variable is not set"
        /\ run[r].logins = 0 /\ run[r].fetches = 0 /\ run[r].creates = 0


\* C11: two overlapping runs whose scans both return false on a history
\* without the link, every call succeeding, both create a post: the account
\* ends with two posts for the link.
C11_RaceMakesTwoPosts ==
    (/\ RanClean("r1") /\ RanClean("r2")
     /\ ~run["r1"].alreadyPosted /\ ~run["r2"].alreadyPosted
     /\ Matching(InitialHistory, run["r1"].latestPost.link) = {})
    => /\ run["r1"].creates = 1
       /\ run["r2"].creates = 1
       /\ Cardinality(Matching(history, run["r1"].latestPost.link)) = 2

C11_Witness ==
    /\ RanClean("r1") /\ RanClean("r2")
    /\ "r1" \notin run["r2"].after
    /\ run["r1"].fetches >= 1 /\ run["r2"].fetches >= 1
    /\ ~run["r1"].alreadyPosted /\ ~run["r2"].alreadyPosted
    /\ Matching(InitialHistory, run["r1"].latestPost.link) = {}
    /\ Len(history) = Len(InitialHistory) + 2
    /\ Cardinality(Matching(history, run["r1"].latestPost.link)) = 2

\* The position of the first post of history h that the scanner takes for
\* link, or 0.
FirstMatching(h, link) ==
    IF Matching(h, link) = {} THEN 0
    ELSE CHOOSE i \in Matching(h, link) : \A j \in Matching(h, link) : i <= j

\* C13: a scan that returns true has inspected the posts up to the first
\* matching one and no post after it, and requests no further page.
C13_ShortCircuit ==
    \A r \in Runs :
        run[r].alreadyPosted =>
            /\ run[r].pc # "AUTHENTICATED"
            /\ run[r].lastResponse = "page"
            /\ run[r].pc = "DEDUP_CHECKED" =>
                   run[r].postsChecked = FirstMatching(history, run[r].latestPost.link)

C13_Witness ==
    \E r \in Runs :
        /\ run[r].alreadyPosted /\ run[r].pc = "DEDUP_CHECKED"
        /\ run[r].fetches = 2
        /\ run[r].postsChecked = 100
        /\ Len(history) = 200

\* C14: with at least 100 posts none of which matches, a first page of 100
\* posts ends the scan: it returns false after that one request, though
\* the response carries a cursor.
C14_OneRequestAtCeiling ==
    \A r \in Runs :
        (/\ Len(history) >= 100
         /\ Matching(history, run[r].latestPost.link) = {}
         /\ run[r].fetches = 1 /\ run[r].lastResponse = "page"
         /\ run[r].postsChecked = 100)
        => /\ run[r].pc = "DEDUP_CHECKED"
           /\ ~run[r].alreadyPosted

C14_Witness ==
    \E r \in Runs :
        /\ Len(history) = 160
        /\ Matching(history, run[r].latestPost.link) = {}
        /\ run[r].fetches = 1 /\ run[r].lastResponse = "page"
        /\ run[r].postsChecked = 100
        /\ run[r].cursor = <<60>>
        /\ run[r].pc = "DEDUP_CHECKED" /\ ~run[r].alreadyPosted


\* C12: every run that has started eventually reaches DONE or ABORT,
\* whatever the history endpoint answers, every call returning or failing.
C12_EveryRunTerminates ==
    \A r \in Runs : (run[r].pc # "INIT") ~> (run[r].pc \in {"DONE", "ABORT"})


\* The steps the state machine of a run allows.
RunOrder ==
    {<<"INIT", "FEED_READ">>, <<"INIT", "ABORT">>,
     <<"FEED_READ", "AUTHENTICATED">>, <<"FEED_READ", "ABORT">>,
     <<"AUTHENTICATED", "AUTHENTICATED">>, <<"AUTHENTICATED", "DEDUP_CHECKED">>,
     <<"DEDUP_CHECKED", "DONE">>, <<"DEDUP_CHECKED", "SEND">>,
     <<"SEND", "FACET_BUILT">>, <<"SEND", "ABORT">>,
     <<"FACET_BUILT", "DONE">>, <<"FACET_BUILT", "ABORT">>}

\* C15: a run moves INIT, FEED_READ, AUTHENTICATED, DEDUP_CHECKED and then
\* DONE, or FACET_BUILT and DONE after the submission; the first login comes
\* from FEED_READ, a history fetch only after a login and before any
\* createRecord request, the createRecord request only after the duplicate
\* check returned false, and nothing after DONE or ABORT.
C15_EventOrder ==
    [][\A r \in Runs :
        /\ run'[r] # run[r] => <<run[r].pc, run'[r].pc>> \in RunOrder
        /\ run'[r].logins > run[r].logins =>
               /\ run[r].pc \in {"FEED_READ", "SEND"}
               /\ run[r].pc = "FEED_READ" =>
                      run[r].logins = 0 /\ run[r].fetches = 0 /\ run[r].creates = 0
        /\ run'[r].fetches > run[r].fetches =>
               run[r].pc = "AUTHENTICATED" /\ run[r].logins >= 1 /\ run[r].creates = 0
        /\ run'[r].creates > run[r].creates =>
               /\ run[r].pc = "FACET_BUILT"
               /\ ~run[r].alreadyPosted
               /\ run[r].fetches >= 1
        /\ run[r].pc \in {"DONE", "ABORT"} => run'[r] = run[r]]_vars

C15_Witness ==
    \E r \in Runs :
        /\ run[r].pc = "DONE" /\ run[r].creates = 1
        /\ run[r].logins = 2 /\ run[r].fetches = 2
        /\ ~run[r].alreadyPosted

\* C16: a run issues at most one createRecord request; once it has issued
\* it the run has ended, in DONE, or in ABORT when the request failed.
C16_SingleSubmission ==
    \A r \in Runs :
        /\ run[r].creates <= 1
        /\ run[r].creates = 1 =>
               \/ run[r].pc = "DONE" /\ run[r].errorMessage = ""
               \/ run[r].pc = "ABORT" /\ run[r].errorMessage = "createRecord failed"

C16_Witness ==
    \E r \in Runs :
        /\ run[r].pc = "ABORT" /\ run[r].creates = 1
        /\ run[r].errorMessage = "createRecord failed"
        /\ history = InitialHistory

\* The link of the latest entry of the feed is missing or empty.
LatestLinkEmpty ==
    /\ rssFile.kind = "ok"
    /\ Len(rssFile.items) >= 1
    /\ rssFile.items[1].link \in {Undefined, <<>>}

\* C17: with an empty link in the latest entry a run ends in ABORT with the
\* error 'Latest RSS post has no link', and no login, history fetch or
\* createRecord request is issued.
C17_EmptyLinkAbortsBeforeNetwork ==
    LatestLinkEmpty =>
        \A r \in Runs :
            /\ run[r].pc \in {"INIT", "ABORT"}
            /\ run[r].logins = 0 /\ run[r].fetches = 0 /\ run[r].creates = 0
            /\ run[r].pc = "ABORT" =>
                   /\ run[r].errorMessage = "Latest RSS post has no link"
                   /\ run[r].exitCode = 1

C17_Witness ==
    /\ LatestLinkEmpty
    /\ rssFile.items[1].link = <<>>
    /\ \E r \in Runs :
        run[r].pc = "ABORT" /\ run[r].errorMessage = "Latest RSS post has no link"

C20_FallbackText ==
    \A r \in Runs :
        /\ run[r].errorMessage # "Post text is required"
        /\ (run[r].pc \in {"SEND", "FACET_BUILT"} \/ run[r].creates = 1) =>
               run[r].text = IF run[r].latestPost.title = <<>>
                             THEN NewPost ELSE run[r].latestPost.title
        /\ (run[r].pc = "FACET_BUILT" \/ run[r].creates = 1) =>
               /\ run[r].latestPost.title = <<>> =>
                      run[r].record.text = NewPost \o <<"sp">> \o run[r].latestPost.link
               /\ (run[r].latestPost.title # <<>>
                     /\ ~Includes(run[r].latestPost.title, run[r].latestPost.link)) =>
                      \E sep \in {<<>>, <<"sp">>} :
                          run[r].record.text =
                              run[r].latestPost.title \o sep \o run[r].latestPost.link
               /\ (run[r].latestPost.title # <<>>
                     /\ Includes(run[r].latestPost.title, run[r].latestPost.link)) =>
                      run[r].record.text = run[r].latestPost.title

C20_Witness ==
    \E r \in Runs :
        /\ run[r].pc = "DONE" /\ run[r].creates = 1
        /\ run[r].latestPost.title = <<>>
        /\ ~run[r].alreadyPosted
        /\ run[r].record.text = NewPost \o <<"sp">> \o run[r].latestPost.link
        /\ Head(history) = run[r].record


\* The string an entry's title or link is returned as: "" when it is
\* missing.
Returned(x) == IF x = Undefined THEN <<>> ELSE x

\* C19: getLatestRSSPost on a feed with items returns the title and the
\* link of the first item, "" for a missing one; on a feed without items,
\* or one it cannot read or parse, it throws.
C19_ReturnsFirstItem ==
    \A r \in Runs :
        run[r].pc \in {"RETURNED", "THREW"} =>
            /\ (rssFile.kind = "ok" /\ Len(rssFile.items) >= 1) =>
                   /\ run[r].pc = "RETURNED"
                   /\ run[r].latestPost.title = Returned(rssFile.items[1].title)
                   /\ run[r].latestPost.link = Returned(rssFile.items[1].link)
            /\ (rssFile.kind = "ok" /\ Len(rssFile.items) = 0) =>
                   /\ run[r].pc = "THREW"
                   /\ run[r].errorMessage = "No items found in RSS feed"
            /\ rssFile.kind # "ok" => run[r].pc = "THREW"

C19_Witness ==
    \E r \in Runs :
        /\ run[r].pc = "RETURNED"
        /\ Len(rssFile.items) = 2
        /\ rssFile.items[1].link = Undefined
        /\ rssFile.items[2].link = <<"u">>
        /\ rssFile.items[2].title # rssFile.items[1].title
        /\ run[r].latestPost.link = <<>>


\* C21: sendBlueskyPost called with a missing or empty text throws 'Post
\* text is required'; it reads no credential, does not log in and issues
\* no createRecord request.
C21_TextRequiredFirst ==
    \A r \in Runs :
        (run[r].caller = "direct" /\ run[r].text \in {Undefined, <<>>}) =>
            /\ run[r].pc \in {"CALLED", "THREW"}
            /\ run[r].logins = 0 /\ run[r].creates = 0
            /\ run[r].pc = "THREW" => run[r].errorMessage = "Post text is required"

C21_Witness ==
    \E r \in Runs :
        /\ run[r].caller = "direct" /\ run[r].text = <<>>
        /\ ~env.BLUESKY_USERNAME
        /\ run[r].pc = "THREW"
        /\ run[r].errorMessage = "Post text is required"


\* C27: a run of postLatestToBluesky logs in at most once.
C27_AtMostOneLogin ==
    \A r \in Runs : run[r].caller = "postLatestToBluesky" => run[r].logins <= 1

\* A link facet of post p has uri link.
HasLinkFacet(p, link) ==
    \E f \in 1..Len(p.facets) : \E k \in 1..Len(p.facets[f].features) :
        /\ p.facets[f].features[k].type = "app.bsky.richtext.facet#link"
        /\ p.facets[f].features[k].uri = link

\* C28: the record a run of postLatestToBluesky builds for its link has the
\* link in its text and a link facet with the link as uri, and the scanner
\* takes it for the link.
C28_SubmittedRecordDetectable ==
    \A r \in Runs :
        (/\ run[r].caller = "postLatestToBluesky"
         /\ run[r].pc = "FACET_BUILT" \/ run[r].creates = 1) =>
            /\ Includes(run[r].record.text, run[r].latestPost.link)
            /\ HasLinkFacet(run[r].record, run[r].latestPost.link)
            /\ ItemMatches(run[r].record, run[r].latestPost.link)
            /\ run[r].pc = "DONE" =>
                   \E i \in 1..Len(history) :
                       history[i] = run[r].record
                       /\ i \in Matching(history, run[r].latestPost.link)

C28_Witness ==
    \E r \in Runs :
        /\ run[r].pc = "DONE" /\ run[r].creates = 1
        /\ run[r].latestPost.title = <<"u", "v">>
        /\ run[r].latestPost.link = <<"u">>
        /\ Head(history) = run[r].record
        /\ 1 \in Matching(history, <<"u">>)

\* White space, which ends a URL written in a text.
WhiteSpace == {"sp", "tab", "nl"}

\* link stands in text as a complete URL: from the start of the text or
\* white space, to the end of the text or white space.
ContainsWholeUrl(text, link) ==
    /\ text # Undefined
    /\ \E i \in 1..Len(text) :
        /\ i + Len(link) - 1 <= Len(text)
        /\ SubSeq(text, i, i + Len(link) - 1) = link
        /\ i = 1 \/ text[i - 1] \in WhiteSpace
        /\ i + Len(link) - 1 = Len(text) \/ text[i + Len(link)] \in WhiteSpace

\* Post p was published for link.
PublishedFor(p, link) ==
    p.record /\ (HasLinkFacet(p, link) \/ ContainsWholeUrl(p.text, link))

\* C29: the first run, every call of it succeeding, on a history no post of
\* which was published for the latest entry's link, submits a post.
C29_NoFalseDuplicate ==
    (/\ RanClean("r1")
     /\ \A i \in 1..Len(InitialHistory) :
            ~PublishedFor(InitialHistory[i], run["r1"].latestPost.link))
    => run["r1"].creates = 1

\* C30: a scan about to issue a request holds no cursor if the request is
\* its first and the cursor of the last response otherwise, which is not
\* empty; it has inspected every post of the pages it was given.
C30_CursorThreading ==
    \A r \in Runs :
        run[r].pc = "AUTHENTICATED" =>
            /\ run[r].fetches = 0 => run[r].cursor = <<>> /\ run[r].postsChecked = 0
            /\ run[r].fetches > 0 => run[r].cursor # <<>> /\ run[r].hasMore
            /\ run[r].cursor # <<>> =>
                   /\ run[r].cursor[1] <= Len(history)
                   /\ run[r].postsChecked = Len(history) - run[r].cursor[1]

C30_Witness ==
    \E r \in Runs :
        /\ run[r].pc = "AUTHENTICATED" /\ run[r].fetches = 2
        /\ Len(history) = 200
        /\ run[r].cursor = <<140>>
        /\ run[r].postsChecked = 60


\* The url of the call of fetchCSS is a string that new URL takes.
UrlWellFormed ==
    /\ job.url.type = "string"
    /\ \E i \in 1..Len(job.url.val) :
        /\ job.url.val[i] = "https://h"
        /\ \A j \in 1..(i - 1) : job.url.val[j] = "sp"
        /\ i < Len(job.url.val) =>
               job.url.val[i + 1] # "sp" \/ \A j \in (i + 1)..Len(job.url.val) :
                                               job.url.val[j] = "sp"

\* C23: for a valid URL fetchCSS does not reject; it resolves with the body
\* when the response is ok and the body was read, and with null when the
\* response is not ok or the request fails.  For any other argument it
\* rejects and fetches nothing.
C23_FetchCSSOutcomes ==
    job.fn = "fetchCSS" =>
        /\ UrlWellFormed =>
               /\ job.pc # "REJECTED"
               /\ job.pc = "RESOLVED" =>
                      /\ job.fetches = 1
                      /\ job.fetched # "none"
                      /\ (job.fetched = "response" /\ job.status \in 200..299) =>
                             /\ job.read # "none"
                             /\ job.read = "text" => job.result = job.body
                             /\ job.read = "failed" => job.result = Null
                      /\ (job.fetched = "failed" \/ job.status \notin 200..299) =>
                             job.result = Null /\ job.read = "none"
        /\ ~UrlWellFormed =>
               /\ job.pc \in {"CALLED", "REJECTED"}
               /\ job.fetches = 0

C23_Witness ==
    /\ job.fn = "fetchCSS" /\ job.pc = "RESOLVED"
    /\ job.url = Str(<<"sp", "https://h", "/p">>)
    /\ job.status = 299 /\ job.read = "text"
    /\ job.result = <<>>


\* C24: after setupDist(paths) has returned DIST_PATH is a directory, every
\* name of paths is a directory in it, and nothing at or below DIST_PATH is
\* from before the call.
C24_FreshDist ==
    (job.fn = "setupDist" /\ job.pc = "RETURNED") =>
        /\ \E n \in disk : n.path = <<"dist">> /\ n.kind = "dir"
        /\ \A i \in 1..Len(job.paths.val) :
               \E n \in disk : n.path = <<"dist">> \o job.paths.val[i].val
                               /\ n.kind = "dir"
        /\ \A n \in disk :
               (Len(n.path) >= 1 /\ n.path[1] = "dist") => n.made = "call"
        /\ \A n \in job.before :
               (Len(n.path) >= 1 /\ n.path[1] # "dist") => n \in disk

C24_Witness ==
    /\ job.fn = "setupDist" /\ job.pc = "RETURNED"
    /\ job.paths.val = <<Str(<<"css">>), Str(<<"css", "a">>)>>
    /\ OldFile(<<"dist", "old">>) \in job.before
    /\ OldDir(<<"dist", "css", "a">>) \in job.before
    /\ NewDir(<<"dist", "css", "a">>) \in disk


\* C25: after mirrorDirectory(src, dest) has returned every directory below
\* src is a directory at the same place below dest, the call has made no
\* regular file, and a second call leaves the disk as the first left it.
C25_MirrorsDirectories ==
    (job.fn = "mirrorDirectory" /\ job.pc = "RETURNED") =>
        /\ \A n \in disk :
               (n.kind = "dir" /\ Within(job.src.val, n.path)) =>
                   \E m \in disk :
                       /\ m.kind = "dir"
                       /\ m.path = job.dest.val
                                   \o SubSeq(n.path, Len(job.src.val) + 1, Len(n.path))
        /\ \A n \in disk : n.kind = "file" => n.made = "before"
        /\ job.calls = 2 => disk = job.previous


\* C26: a call of writeRSS that throws has left the disk as it was; one
\* that returns has written the file at writePath and nothing else, and
\* the file holds one item for each entry, in the order of the entries.
C26_WriteRSSAllOrNothing ==
    job.fn = "writeRSS" =>
        /\ job.pc = "THREW" => disk = job.before
        /\ job.pc = "RETURNED" =>
               /\ \A n \in disk : n.path # job.writePath.val => n \in job.before
               /\ \A n \in job.before : n.path # job.writePath.val => n \in disk
               /\ \E n \in disk :
                   /\ n.path = job.writePath.val /\ n.kind = "file" /\ n.made = "call"
                   /\ Len(n.content.items) = Len(job.entries.val)
                   /\ \A i \in 1..Len(job.entries.val) :
                       /\ n.content.items[i].title = job.entries.val[i].title
                       /\ n.content.items[i].link = job.entries.val[i].url

C26_Witness ==
    /\ job.fn = "writeRSS" /\ job.pc = "RETURNED"
    /\ Len(job.entries.val) = 2
    /\ job.entries.val[1].url # job.entries.val[2].url
    /\ OldFile(<<"dist", "rss.xml">>) \in job.before
    /\ \E n \in disk : n.path = <<"dist", "rss.xml">> /\ n.made = "call"


\* The images and videos below contentDir before the call.
MediaBefore ==
    {n.path : n \in {m \in job.before :
        /\ m.kind = "file"
        /\ Within(job.contentDir.val, m.path)
        /\ m.path[Len(m.path)] \in {"a.jpg", "f.jpg", "b.gif", "c.png", "d.svg", "e.mp4"}}}

\* C22: when the promise of writeImages is resolved, every image and video
\* below contentDir has its output below distDir, and no resize has failed.
C22_AllWrittenOnResolve ==
    (job.fn = "writeImages" /\ job.pc = "RESOLVED") =>
        /\ \A f \in MediaBefore :
               \E n \in disk : /\ n.path = job.distDir.val \o Tail(f)
                               /\ n.kind = "file" /\ n.made = "call"
        /\ job.unhandled = {}

====
